---- MODULE Spec2Model ----
(***************************************************************************)
(* PyWO event dispatch core: EventDispatcher (pywo/dispatch.py) and the    *)
(* EventHandler hierarchy (pywo/core/events.py).                           *)
(*                                                                         *)
(* The registry self.__handlers is a dict of dicts of lists.  Python hands *)
(* out references to the inner dicts and lists, and the code keeps such    *)
(* references in locals while other threads mutate the registry, so the    *)
(* model keeps the inner dicts and the lists in a heap (dicts, lists) and  *)
(* the registry and the locals hold references into it.                    *)
(*                                                                         *)
(* One step of a thread is one access to shared state (one dict or list    *)
(* operation, one read of self.__thread); the interpreter lock makes each  *)
(* of them atomic.  Purely local control flow is folded into the step that *)
(* precedes it.                                                            *)
(***************************************************************************)
EXTENDS Integers, Sequences, FiniteSets, TLC

VARIABLES
    handlers,   \* self.__handlers: window id -> reference of its kind dict
    dicts,      \* heap: dict reference -> (event kind -> list reference)
    lists,      \* heap: list reference -> sequence of handlers
    thread,     \* self.__thread: NoThread or a pump thread id
    tstate,     \* pump thread id -> "unborn" | "new" | "alive" | "dead"
    pump,       \* pump thread id -> position and locals of run/__dispatch
    caller,     \* client thread id -> position and locals of register/unregister
    queue,      \* the display's pending raw events
    ghost,      \* history kept for the properties only
    hkeys,      \* key handler -> its self.keys, self.numlock, self.capslock
    grabs       \* the passive key grabs in effect on the windows

vars == <<handlers, dicts, lists, thread, tstate, pump, caller, queue, ghost,
          hkeys, grabs>>

----------------------------------------------------------------------------
(* Bounds of the model *)

MaxLen == 2         \* handlers in one list when a register call is let in
MaxCalls == 3       \* calls made while the pump or other client threads run
MaxEvents == 2      \* raw events that arrive while calls are made one at a time
MaxRaceEvents == 1  \* raw events that arrive while client threads interleave
MaxPumps == 2       \* pump thread objects that exist at the same time

Callers == {1, 2}
PumpIds == 1..MaxPumps

----------------------------------------------------------------------------
(* Windows, event kinds, handlers *)

NoWin == 0
Root == 1
WinSeq == <<1, 2>>
WinIds == {WinSeq[i] : i \in 1..Len(WinSeq)}

KindSeq == <<"KeyPress", "KeyRelease", "DestroyNotify", "CreateNotify",
            "ConfigureNotify", "PropertyNotify">>
Kinds == {KindSeq[i] : i \in 1..Len(KindSeq)}

NoHandler == "None"
HandlerIds == {"key1", "key2", "destroy", "bare", "create", "create0",
               "destroyc", "configure", "configurec", "tconfigure"}

\* EventHandler.types: the keys of the handler's mapping, in dict order.
\*   key1, key2 : KeyHandler instances
\*   destroy    : DestroyNotifyHandler(children=False)
\*   bare       : EventHandler(masks, {}), the base class with an empty mapping
\*   create     : CreateNotifyHandler(create=f), f a function
\*   create0    : CreateNotifyHandler(), no create callback
\*   destroyc   : DestroyNotifyHandler(children=True)
\*   configure  : ConfigureNotifyHandler(configure=f) of pywo/core/events.py
\*   configurec : ConfigureNotifyHandler(configure=f, children=True), the same
\*   tconfigure : ConfigureNotifyHandler(configure=f) of trunk/events.py
HandlerTypes(h) ==
    CASE h \in {"key1", "key2"} -> <<"KeyPress", "KeyRelease">>
      [] h \in {"destroy", "destroyc"} -> <<"DestroyNotify">>
      [] h \in {"create", "create0"} -> <<"CreateNotify">>
      [] h \in {"configure", "configurec"} -> <<"ConfigureNotify">>
      [] h = "tconfigure" -> <<"PropertyNotify">>
      [] OTHER -> <<>>

\* The children argument a DestroyNotifyHandler or ConfigureNotifyHandler was
\* built with
Children(h) == h \in {"destroyc", "configurec"}

\* _SUBSTRUCTURE[bool(children)], in trunk _SUBSTRUCTURE[children]
Substructure(children) ==
    IF children THEN "SubstructureNotifyMask" ELSE "StructureNotifyMask"

\* EventHandler.masks as given to EventHandler.__init__.
HandlerMasks(h) ==
    CASE h \in {"key1", "key2"} -> {"KeyPressMask", "KeyReleaseMask"}
      [] h \in {"destroy", "destroyc", "configure", "configurec", "tconfigure"} ->
            {Substructure(Children(h))}
      [] h \in {"create", "create0"} -> {"SubstructureNotifyMask"}
      [] OTHER -> {"PropertyChangeMask"}

\* The X modifier masks KeyEvent looks at (KeyEvent.__KEY_MODIFIERS) and the
\* value that stands for any modifier
ShiftMask == 1
ControlMask == 4
Mod1Mask == 8
Mod4Mask == 64
AnyModifier == 32768
KeyModifiers == <<ShiftMask, ControlMask, Mod1Mask, Mod4Mask>>

\* Python's & and | on non-negative integers
RECURSIVE BitAnd(_, _)
BitAnd(a, b) ==
    IF a = 0 \/ b = 0 THEN 0
    ELSE ((a % 2) * (b % 2)) + 2 * BitAnd(a \div 2, b \div 2)
RECURSIVE BitOr(_, _)
BitOr(a, b) ==
    IF a = 0 THEN b ELSE IF b = 0 THEN a
    ELSE (IF a % 2 = 1 \/ b % 2 = 1 THEN 1 ELSE 0) + 2 * BitOr(a \div 2, b \div 2)

\* The loop of lines 118-121 from position i on, modifiers gathered so far
RECURSIVE GatherModifiers(_, _, _)
GatherModifiers(state, i, modifiers) ==
    IF i > Len(KeyModifiers) THEN modifiers
    ELSE GatherModifiers(state, i + 1,
            IF BitAnd(state, KeyModifiers[i]) # 0
            THEN BitOr(modifiers, KeyModifiers[i]) ELSE modifiers)

\* A normalisation that returns 0 when no tracked modifier is set
GetModifiersNoSentinel(ev) ==
    [modifiers |-> GatherModifiers(ev.state, 1, 0), keycode |-> ev.detail]

\* KeyEvent.__get_modifiers_keycode
GetModifiersKeycode(ev) ==
    LET modifiers == GatherModifiers(ev.state, 1, 0)
    IN  [modifiers |-> IF modifiers # 0 THEN modifiers ELSE AnyModifier,
         keycode |-> ev.detail]

\* KeyHandler.keys and the callbacks given to KeyHandler.__init__:
\*   key1 : KeyHandler(key_press=f, key_release=g,
\*                     keys=[(ShiftMask, 38), (AnyModifier, 39)])
\*   key2 : KeyHandler(key_release=g, keys=[(ShiftMask, 38)])
\* The handlers that are KeyHandlers
KeyHandlers == {"key1", "key2"}

Keys(h) ==
    CASE h = "key1" -> {<<ShiftMask, 38>>, <<AnyModifier, 39>>}
      [] h = "key2" -> {<<ShiftMask, 38>>}
      [] OTHER -> {}
HasKeyCallback(h, type) ==
    \/ h = "key1" /\ type \in {"KeyPress", "KeyRelease"}
    \/ h = "key2" /\ type = "KeyRelease"

\* A key_press that does not look at self.keys
KeyCallsAnyKey(h, ev) == HasKeyCallback(h, ev.type)

\* KeyHandler.key_press / key_release: whether the callback is called with the
\* KeyEvent made of raw event ev
KeyCalls(h, ev) ==
    /\ HasKeyCallback(h, ev.type)
    /\ <<GetModifiersKeycode(ev).modifiers, GetModifiersKeycode(ev).keycode>> \in Keys(h)

\* self.__create of a CreateNotifyHandler is set
HasCallback(h) == h = "create"

\* A create that does not look at event.override
CreateAlways(h, ev) == HasCallback(h)

\* CreateNotifyHandler.create: whether the create callback is called with the
\* event (if not event.override and self.__create)
CreateCalls(h, ev) == ~ev.override /\ HasCallback(h)

----------------------------------------------------------------------------
(* Dicts and lists *)

EmptyMap == [x \in {} |-> 0]
Put(f, k, v) == [x \in (DOMAIN f) \cup {k} |-> IF x = k THEN v ELSE f[x]]
\* A del that removes nothing
KeepKey(f, k) == f
\* A del that empties the dict
DelAll(f, k) == EmptyMap
Del(f, k) == [x \in (DOMAIN f) \ {k} |-> f[x]]

Range(s) == {s[i] : i \in DOMAIN s}
Contains(s, x) == \E i \in 1..Len(s) : s[i] = x

\* A remove that drops the head of the list, whatever it is
RemoveHead(s, x) == Tail(s)

\* A remove that drops every occurrence of x, which list.remove does not do
RemoveAll(s, x) == SelectSeq(s, LAMBDA y : y # x)

\* list.remove(x): drops the first occurrence of x
RemoveFirst(s, x) ==
    LET i == CHOOSE j \in 1..Len(s) : s[j] = x /\ \A k \in 1..(j-1) : s[k] # x
    IN  [k \in 1..(Len(s)-1) |-> IF k < i THEN s[k] ELSE s[k+1]]

NullRef == 0
FreshRef(heap) == CHOOSE n \in 1..(Cardinality(DOMAIN heap) + 1) : n \notin DOMAIN heap

----------------------------------------------------------------------------
(* The shared memory a step reads and writes *)

NoThread == 0

Mem == [handlers |-> handlers, dicts |-> dicts, lists |-> lists,
        thread |-> thread, tstate |-> tstate]

\* The handlers listed for (w, k), in list order; empty when there is none.
Listed(M, w, k) ==
    IF w \in DOMAIN M.handlers /\ k \in DOMAIN M.dicts[M.handlers[w]]
    THEN M.lists[M.dicts[M.handlers[w]][k]]
    ELSE <<>>

\* A __get_masks that returns after the first kind list
GetMasksFirst(M, w) ==
    LET ks == {i \in 1..Len(KindSeq) : Listed(M, w, KindSeq[i]) # <<>>}
        l == Listed(M, w, KindSeq[CHOOSE i \in ks : \A j \in ks : i <= j])
    IN  IF ks = {} THEN {} ELSE UNION {HandlerMasks(l[i]) : i \in DOMAIN l}

\* EventDispatcher.__get_masks
GetMasks(M, w) ==
    LET type_handlers == {Listed(M, w, k) : k \in Kinds}
    IN  UNION {UNION {HandlerMasks(l[i]) : i \in DOMAIN l} : l \in type_handlers}

----------------------------------------------------------------------------
(* register and unregister, one statement at a time.                       *)
(* L is the calling thread's frame:                                        *)
(*   pc  position (r<line> in register, u<line> in unregister, "idle")     *)
(*   op, w, h   the call and its arguments (w = NoWin, h = NoHandler: None) *)
(*   wh  window_handlers, th  type_handlers, i  position in handler.types  *)
(*   ret the value returned, exc the exception that ended the call         *)

IdleFrame == [pc |-> "idle", op |-> "none", w |-> NoWin, h |-> NoHandler,
              wh |-> NullRef, th |-> NullRef, i |-> 0, ret |-> {}, exc |-> ""]

Return(L, masks) == [L EXCEPT !.pc = "idle", !.wh = NullRef, !.th = NullRef,
                              !.i = 0, !.ret = masks]
Raise(L, e) == [L EXCEPT !.pc = "idle", !.wh = NullRef, !.th = NullRef,
                         !.i = 0, !.exc = e]

\* for type in handler.types: the statement the loop goes to next
LoopPc(L, i, body, after) ==
    [L EXCEPT !.i = i, !.pc = IF i <= Len(HandlerTypes(L.h)) THEN body ELSE after]

\* dict.setdefault(k, {}) on self.__handlers
SetDefaultWindow(M, w) ==
    IF w \in DOMAIN M.handlers
    THEN [M |-> M, ref |-> M.handlers[w]]
    ELSE LET d == FreshRef(M.dicts)
         IN  [M |-> [M EXCEPT !.handlers = Put(@, w, d), !.dicts = Put(@, d, EmptyMap)],
              ref |-> d]

\* A setdefault that keys the list by the first kind there is, not by k
SetDefaultFirstKind(M, d, k) ==
    IF KindSeq[1] \in DOMAIN M.dicts[d]
    THEN [M |-> M, ref |-> M.dicts[d][KindSeq[1]]]
    ELSE LET l == FreshRef(M.lists)
         IN  [M |-> [M EXCEPT !.dicts[d] = Put(@, KindSeq[1], l), !.lists = Put(@, l, <<>>)],
              ref |-> l]

\* A kind dict that holds one handler per kind: the entry is made anew
SetTypeAnew(M, d, k) ==
    LET l == FreshRef(M.lists)
    IN  [M |-> [M EXCEPT !.dicts[d] = Put(@, k, l), !.lists = Put(@, l, <<>>)],
         ref |-> l]

\* dict.setdefault(k, []) on a window's kind dict
SetDefaultType(M, d, k) ==
    IF k \in DOMAIN M.dicts[d]
    THEN [M |-> M, ref |-> M.dicts[d][k]]
    ELSE LET l == FreshRef(M.lists)
         IN  [M |-> [M EXCEPT !.dicts[d] = Put(@, k, l), !.lists = Put(@, l, <<>>)],
              ref |-> l]

\* threading.Thread(...).isAlive() of self.__thread
ThreadIsAlive(M) == M.thread # NoThread /\ M.tstate[M.thread] = "alive"

UnbornPumps(M) == {p \in PumpIds : M.tstate[p] = "unborn"}

\* A start of unregister that clears everything only when both arguments are None
BeginCallBothNone(op, w, h) ==
    [IdleFrame EXCEPT !.op = op, !.w = w, !.h = h, !.i = 1,
        !.pc = IF op = "register" THEN "r82"
               ELSE IF w = NoWin /\ h = NoHandler THEN "u103" ELSE "u105"]

\* The start of a call: the frame at its first statement
BeginCall(op, w, h) ==
    [IdleFrame EXCEPT !.op = op, !.w = w, !.h = h, !.i = 1,
        !.pc = IF op = "register" THEN "r82"
               ELSE IF w = NoWin THEN "u103" ELSE "u105"]

RegisterStep(M, L) ==
    CASE L.pc = "r82" ->
            LET r == SetDefaultWindow(M, L.w)
            IN  [M |-> r.M, L |-> LoopPc([L EXCEPT !.wh = r.ref], 1, "r84", "r86")]
      [] L.pc = "r84" ->
            LET r == SetDefaultType(M, L.wh, HandlerTypes(L.h)[L.i])
            IN  [M |-> r.M, L |-> [L EXCEPT !.th = r.ref, !.pc = "r85"]]
      [] L.pc = "r85" ->
            [M |-> [M EXCEPT !.lists[L.th] = Append(@, L.h)],
             L |-> LoopPc(L, L.i + 1, "r84", "r86")]
      [] L.pc = "r86" ->
            [M |-> M, L |-> [L EXCEPT !.pc = IF ThreadIsAlive(M) THEN "r92" ELSE "r89"]]
      [] L.pc = "r89" ->
            LET p == CHOOSE q \in UnbornPumps(M) : \A o \in UnbornPumps(M) : q <= o
            IN  [M |-> [M EXCEPT !.thread = p, !.tstate[p] = "new"],
                 L |-> [L EXCEPT !.pc = "r91"]]
      [] L.pc = "r91" ->
            IF M.tstate[M.thread] = "new"
            THEN [M |-> [M EXCEPT !.tstate[M.thread] = "alive"],
                  L |-> [L EXCEPT !.pc = "r92"]]
            ELSE [M |-> M, L |-> Raise(L, "RuntimeError")]
      [] L.pc = "r92" ->
            [M |-> M, L |-> Return(L, GetMasks(M, L.w))]

UnregisterStep(M, L) ==
    CASE L.pc = "u103" ->
            [M |-> [M EXCEPT !.handlers = EmptyMap], L |-> Return(L, {})]
      [] L.pc = "u105" ->
            [M |-> M,
             L |-> [L EXCEPT !.pc = IF L.w \notin DOMAIN M.handlers THEN "u119"
                                    ELSE IF L.h = NoHandler THEN "u107" ELSE "u110"]]
      [] L.pc = "u107" ->
            [M |-> M,
             L |-> [L EXCEPT !.pc = IF L.w \in DOMAIN M.handlers THEN "u109" ELSE "u110"]]
      [] L.pc = "u109" ->
            IF L.w \in DOMAIN M.handlers
            THEN [M |-> [M EXCEPT !.handlers = Del(@, L.w)], L |-> [L EXCEPT !.pc = "u119"]]
            ELSE [M |-> M, L |-> Raise(L, "KeyError")]
      [] L.pc = "u110" ->
            [M |-> M,
             L |-> [L EXCEPT !.pc = IF L.w \in DOMAIN M.handlers THEN "u112" ELSE "u119"]]
      [] L.pc = "u112" ->
            IF L.w \notin DOMAIN M.handlers
            THEN [M |-> M, L |-> Raise(L, "KeyError")]
            ELSE IF L.h = NoHandler
            THEN [M |-> M, L |-> Raise(L, "AttributeError")]
            ELSE [M |-> M,
                  L |-> LoopPc([L EXCEPT !.wh = M.handlers[L.w]], 1, "u114", "u119")]
      [] L.pc = "u114" ->
            LET r == SetDefaultType(M, L.wh, HandlerTypes(L.h)[L.i])
            IN  [M |-> r.M, L |-> [L EXCEPT !.th = r.ref, !.pc = "u115"]]
      [] L.pc = "u115" ->
            [M |-> M,
             L |-> [L EXCEPT !.pc = IF Contains(M.lists[L.th], L.h) THEN "u116" ELSE "u117"]]
      [] L.pc = "u116" ->
            IF Contains(M.lists[L.th], L.h)
            THEN [M |-> [M EXCEPT !.lists[L.th] = RemoveFirst(@, L.h)],
                  L |-> [L EXCEPT !.pc = "u117"]]
            ELSE [M |-> M, L |-> Raise(L, "ValueError")]
      [] L.pc = "u117" ->
            IF M.lists[L.th] = <<>>
            THEN [M |-> M, L |-> [L EXCEPT !.pc = "u118"]]
            ELSE [M |-> M, L |-> LoopPc(L, L.i + 1, "u114", "u119")]
      [] L.pc = "u118" ->
            IF HandlerTypes(L.h)[L.i] \in DOMAIN M.dicts[L.wh]
            THEN [M |-> [M EXCEPT !.dicts[L.wh] = Del(@, HandlerTypes(L.h)[L.i])],
                  L |-> LoopPc(L, L.i + 1, "u114", "u119")]
            ELSE [M |-> M, L |-> Raise(L, "KeyError")]
      [] L.pc = "u119" ->
            LET r == SetDefaultWindow(M, L.w)
            IN  [M |-> r.M, L |-> [L EXCEPT !.wh = r.ref, !.pc = "u119n"]]
      [] L.pc = "u119n" ->
            [M |-> M,
             L |-> [L EXCEPT !.pc = IF DOMAIN M.dicts[L.wh] = {} THEN "u120" ELSE "u121"]]
      [] L.pc = "u120" ->
            IF L.w \in DOMAIN M.handlers
            THEN [M |-> [M EXCEPT !.handlers = Del(@, L.w)], L |-> [L EXCEPT !.pc = "u121"]]
            ELSE [M |-> M, L |-> Raise(L, "KeyError")]
      [] L.pc = "u121" ->
            [M |-> M, L |-> Return(L, GetMasks(M, L.w))]

\* One statement of the call in progress in frame L
CallerStep(M, L) ==
    IF L.op = "register" THEN RegisterStep(M, L) ELSE UnregisterStep(M, L)

\* Thread() at line 89 needs a thread object; the model has MaxPumps of them
CanStep(M, L) == L.pc # "idle" /\ (L.pc = "r89" => UnbornPumps(M) # {})

\* A whole call with no other thread running in between
RECURSIVE RunCall(_, _)
RunCall(M, L) ==
    IF L.pc = "idle" THEN [M |-> M, L |-> L]
    ELSE CHOOSE x \in {RunCall(r.M, r.L) : r \in {CallerStep(M, L)}} : TRUE

----------------------------------------------------------------------------
(* run and __dispatch, one statement at a time.                            *)
(* P is the pump thread's frame:                                           *)
(*   pc  position (p<line>), ev  the raw event being dispatched,           *)
(*   d   handlers (the kind dict found for the event), l  the list the for *)
(*   loop iterates, idx  the iterator's position, hd  the current handler  *)

\* A raw event: win is event.window.id, evt is event.event.id; NoWin stands
\* for an event that has no such attribute.
NoEvent == [id |-> 0, win |-> NoWin, evt |-> NoWin, type |-> "none"]

\* A lookup that reads event.event where event.window is meant
EventField(ev) == ev.evt
\* event.window.id (line 126) and event.event.id (line 130)
WindowOf(ev) == ev.win
EventOf(ev) == ev.evt

InitPump == [pc |-> "p64", ev |-> NoEvent, d |-> NullRef, l |-> NullRef,
             idx |-> 0, hd |-> NoHandler]

\* A return that leaves the drain loop and run as well
DispatchAbort(P) == [InitPump EXCEPT !.pc = "p69"]

\* A return that skips the rest of the drain loop and goes to sleep
DispatchSleep(P) == [InitPump EXCEPT !.pc = "p64"]

\* return from __dispatch to the drain loop of run
DispatchReturn(P) == [InitPump EXCEPT !.pc = "p65"]

\* while self.__handlers (line 64): the loop goes on while the registry is non-empty
KeepRunning(M) == DOMAIN M.handlers # {}

\* The result of one statement: the frame, the queue, how the thread ended
\* ("" while it runs, "exit" when run returns, else the exception that left
\* run) and the handler whose handle_event was called (NoHandler: none).
\* ok tells whether that handle_event (the wrapping of the raw event and the
\* callback) returns; nothing between the call and the top of run catches.
PumpStep(M, P, q, ok) ==
    LET go(P2) == [P |-> P2, q |-> q, end |-> "", call |-> NoHandler]
        fail(e) == [P |-> InitPump, q |-> q, end |-> e, call |-> NoHandler]
        fetch(w) == IF w \in DOMAIN M.handlers
                    THEN go([P EXCEPT !.d = M.handlers[w], !.pc = "p139"])
                    ELSE fail("KeyError")
    IN
    CASE P.pc = "p64" ->
            go([P EXCEPT !.pc = IF KeepRunning(M) THEN "p65" ELSE "p69"])
      [] P.pc = "p69" ->
            [P |-> InitPump, q |-> q, end |-> "exit", call |-> NoHandler]
      [] P.pc = "p65" ->
            go([P EXCEPT !.pc = IF Len(q) > 0 THEN "p67" ELSE "p64"])
      [] P.pc = "p67" ->
            [P |-> [P EXCEPT !.ev = Head(q), !.pc = "p125"], q |-> Tail(q),
             end |-> "", call |-> NoHandler]
      [] P.pc = "p125" ->
            go([P EXCEPT !.pc = IF WindowOf(P.ev) # NoWin /\ WindowOf(P.ev) \in DOMAIN M.handlers
                                 THEN "p128" ELSE "p129"])
      [] P.pc = "p128" -> fetch(WindowOf(P.ev))
      [] P.pc = "p129" ->
            go([P EXCEPT !.pc = IF EventOf(P.ev) # NoWin /\ EventOf(P.ev) \in DOMAIN M.handlers
                                 THEN "p132" ELSE "p133"])
      [] P.pc = "p132" -> fetch(EventOf(P.ev))
      [] P.pc = "p133" ->
            IF Root \in DOMAIN M.handlers
            THEN go([P EXCEPT !.pc = "p135"])
            ELSE go(DispatchReturn(P))
      [] P.pc = "p135" -> fetch(Root)
      [] P.pc = "p139" ->
            IF P.ev.type \notin DOMAIN M.dicts[P.d]
            THEN go(DispatchReturn(P))
            ELSE go([P EXCEPT !.pc = "p142"])
      [] P.pc = "p142" ->
            IF P.ev.type \in DOMAIN M.dicts[P.d]
            THEN go([P EXCEPT !.l = M.dicts[P.d][P.ev.type], !.idx = 0, !.pc = "p142f"])
            ELSE fail("KeyError")
      [] P.pc = "p142f" ->
            IF P.idx < Len(M.lists[P.l])
            THEN go([P EXCEPT !.hd = M.lists[P.l][P.idx + 1], !.idx = P.idx + 1,
                              !.pc = "p143"])
            ELSE go(DispatchReturn(P))
      [] P.pc = "p143" ->
            IF ok
            THEN [P |-> [P EXCEPT !.hd = NoHandler, !.pc = "p142f"], q |-> q,
                  end |-> "", call |-> P.hd]
            ELSE [P |-> InitPump, q |-> q, end |-> "HandlerError", call |-> P.hd]

\* next_event() blocks while nothing is pending
PumpCanStep(P, q) == P.pc = "p67" => Len(q) > 0

----------------------------------------------------------------------------
(* The heap is kept in a normal form: objects no thread and no registry    *)
(* entry refers to are dropped, and references are numbered in the order   *)
(* in which a walk from the registry and then the frames meets them.       *)

\* The references of s other than NullRef, each once, in order of first occurrence
FirstAt(s) == {i \in 1..Len(s) : s[i] # NullRef /\ \A j \in 1..(i - 1) : s[j] # s[i]}
Dedupe(s0) ==
    CHOOSE r \in
      { [n \in 1..Cardinality(first) |->
           s[CHOOSE i \in first : Cardinality({j \in first : j <= i}) = n]] :
        s \in {s0}, first \in {FirstAt(s0)} } : TRUE

IndexOf(s, x) == IF x = NullRef THEN NullRef ELSE CHOOSE i \in 1..Len(s) : s[i] = x

\* Thread objects: one that is dead or was never started, and that
\* self.__thread no longer names, is gone
LiveThreads(M) ==
    [p \in PumpIds |->
       IF M.tstate[p] \in {"dead", "new"} /\ M.thread # p THEN "unborn" ELSE M.tstate[p]]

DictOrder(M, C, P) ==
    Dedupe([i \in 1..Len(WinSeq) |->
              IF WinSeq[i] \in DOMAIN M.handlers THEN M.handlers[WinSeq[i]] ELSE NullRef]
           \o [c \in Callers |-> C[c].wh] \o [p \in PumpIds |-> P[p].d])

ListOrder(M, C, P, dord) ==
    LET nk == Len(KindSeq)
    IN  Dedupe([j \in 1..(Len(dord) * nk) |->
                  IF KindSeq[((j - 1) % nk) + 1] \in DOMAIN M.dicts[dord[((j - 1) \div nk) + 1]]
                  THEN M.dicts[dord[((j - 1) \div nk) + 1]][KindSeq[((j - 1) % nk) + 1]]
                  ELSE NullRef]
               \o [c \in Callers |-> C[c].th] \o [p \in PumpIds |-> P[p].l])

Renumber(M, C, P, ts, dord, lord) ==
    [M |-> [handlers |-> [w \in DOMAIN M.handlers |-> IndexOf(dord, M.handlers[w])],
            dicts |-> [i \in 1..Len(dord) |->
                         [k \in DOMAIN M.dicts[dord[i]] |->
                            IndexOf(lord, M.dicts[dord[i]][k])]],
            lists |-> [i \in 1..Len(lord) |-> M.lists[lord[i]]],
            thread |-> M.thread,
            tstate |-> ts],
     C |-> [c \in Callers |->
              [C[c] EXCEPT !.wh = IndexOf(dord, @), !.th = IndexOf(lord, @)]],
     P |-> [p \in PumpIds |->
              [P[p] EXCEPT !.d = IndexOf(dord, @), !.l = IndexOf(lord, @)]]]

\* (each intermediate value is bound once, by a singleton set)
Canon(M, C, P) ==
    CHOOSE N \in UNION UNION
      { { { Renumber(M, C, P1, ts, dord, lord) : lord \in {ListOrder(M, C, P1, dord)} } :
            dord \in {DictOrder(M, C, P1)} } :
          ts \in {LiveThreads(M)},
          P1 \in {[p \in PumpIds |-> IF M.tstate[p] = "alive" THEN P[p] ELSE InitPump]} } : TRUE

----------------------------------------------------------------------------
(* History variables.  ghost.evs[i] follows raw event i:                   *)
(*   status  "queued" | "taken" (next_event returned it) | "done" (its     *)
(*           __dispatch returned or raised)                                *)
(*   since   the handlers listed for the event's window and kind ever      *)
(*           since it was queued                                           *)
(*   snap    the handler list as line 142 found it                         *)
(*   log     the handlers whose handle_event was called with it, in order  *)
(*   failed  one of these calls raised                                     *)
(*   keyed   the KeyHandlers whose handle_event returned, the modifiers    *)
(*           and keycode of the KeyEvent each made of it, and whether its  *)
(*           key_press or key_release callback was called with that        *)
(*   late    it arrived while a pump thread was past the first test of     *)
(*           line 65 of a drain (at line 67 or inside __dispatch), and no  *)
(*           pump thread has made the registry test of line 64 since       *)
(*   created the CreateNotifyHandlers whose create callback was called     *)
(*           with it by a handle_event that returned, in order             *)
(* ghost.calls, ghost.arrived: the calls and raw events counted against    *)
(* MaxCalls and MaxEvents.                                                 *)
(* ghost.crashed: an exception has ended a pump thread.                    *)
(* ghost.unregistered: unregister has been called.                         *)
(* ghost.lost: a read of the display's queue has failed.                   *)
(* ghost.exited: the pump threads whose run has returned at line 69.       *)
(* ghost.last describes the most recent whole call: its arguments, the     *)
(* composite mask of w before it (before), whether h was listed for w      *)
(* before it (had), and its outcome.  ghost.pre is set when that call was  *)
(* unregister(w, h) and the call just before it was register(w, h), and    *)
(* then holds before and had of that register.                             *)

NoCall == [op |-> "none", w |-> NoWin, h |-> NoHandler, before |-> {},
           had |-> FALSE, ret |-> {}, exc |-> ""]
NoPre == [valid |-> FALSE, before |-> {}, had |-> FALSE]

InitGhost == [calls |-> 0, arrived |-> 0, evs |-> <<>>, crashed |-> FALSE,
              unregistered |-> FALSE, last |-> NoCall, pre |-> NoPre,
              lost |-> FALSE, exited |-> {}]

\* The window whose table the event is looked up in first
Target(ev) == IF ev.win # NoWin THEN ev.win
              ELSE IF ev.evt # NoWin THEN ev.evt ELSE Root

Track(G, M) ==
    [G EXCEPT !.evs = [i \in 1..Len(G.evs) |->
        IF G.evs[i].status = "done" THEN G.evs[i]
        ELSE [G.evs[i] EXCEPT !.since =
                 @ \cap Range(Listed(M, Target(G.evs[i].ev), G.evs[i].ev.type))]]]

GhostPump(G, M, P, r) ==
    LET id == IF P.pc = "p67" THEN r.P.ev.id ELSE P.ev.id
        upd(e) ==
            [e EXCEPT
               !.status = IF P.pc = "p67" THEN "taken"
                          ELSE IF r.P.ev.id = 0 THEN "done" ELSE @,
               !.snap = IF P.pc = "p142" /\ r.end = "" THEN M.lists[r.P.l] ELSE @,
               !.log = IF r.call # NoHandler THEN Append(@, r.call) ELSE @,
               !.keyed = IF r.call # NoHandler /\ r.end = "" /\ "state" \in DOMAIN e.ev
                         THEN Append(@, [h |-> r.call,
                                         modifiers |-> GetModifiersKeycode(e.ev).modifiers,
                                         keycode |-> GetModifiersKeycode(e.ev).keycode,
                                         called |-> KeyCalls(r.call, e.ev)])
                         ELSE @,
               !.created = IF r.call # NoHandler /\ r.end = ""
                              /\ e.ev.type = "CreateNotify" /\ CreateCalls(r.call, e.ev)
                           THEN Append(@, r.call) ELSE @,
               !.failed = @ \/ r.end = "HandlerError"]
    IN  [G EXCEPT !.evs = IF P.pc = "p64"
                          THEN [i \in 1..Len(@) |->
                                  IF @[i].status = "queued"
                                  THEN [@[i] EXCEPT !.late = FALSE] ELSE @[i]]
                          ELSE IF id = 0 THEN @ ELSE [@ EXCEPT ![id] = upd(@)],
                  !.crashed = @ \/ r.end \notin {"", "exit"}]

----------------------------------------------------------------------------
(* Actions *)

\* K, X: the key handlers' attributes and the key grabs after the step
CommitKeys(M, C, P, q, G, K, X) ==
    \E M1 \in {M}, C1 \in {C}, P1 \in {P} : \E N \in {Canon(M1, C1, P1)} :
        /\ handlers' = N.M.handlers
        /\ dicts' = N.M.dicts
        /\ lists' = N.M.lists
        /\ thread' = N.M.thread
        /\ tstate' = N.M.tstate
        /\ caller' = N.C
        /\ pump' = N.P
        /\ queue' = q
        /\ ghost' = Track(G, N.M)
        /\ hkeys' = K
        /\ grabs' = X

\* A step of the dispatcher, which touches neither the handlers' keys nor
\* the grabs
Commit(M, C, P, q, G) == CommitKeys(M, C, P, q, G, hkeys, grabs)

\* A raw event arrives in the display's queue; late: it is to be followed as
\* one that arrived during a drain
ArriveMarked(ev, max, late) ==
    /\ ghost.arrived < max
    /\ LET e == [ev EXCEPT !.id = ghost.arrived + 1]
       IN  Commit(Mem, caller, pump, Append(queue, e),
                  [ghost EXCEPT !.arrived = @ + 1,
                     !.evs = Append(@, [ev |-> e, status |-> "queued",
                                        since |-> HandlerIds, snap |-> <<>>,
                                        created |-> <<>>, keyed |-> <<>>,
                                        log |-> <<>>, failed |-> FALSE,
                                        late |-> late])])

\* A raw event arrives in the display's queue
Arrive(ev, max) == ArriveMarked(ev, max, FALSE)

\* One statement of pump thread p
PumpAct(p) ==
    /\ tstate[p] = "alive"
    /\ PumpCanStep(pump[p], queue)
    /\ \E ok \in (IF pump[p].pc = "p143" THEN BOOLEAN ELSE {TRUE}) :
         \E r \in {PumpStep(Mem, pump[p], queue, ok)} :
             Commit([Mem EXCEPT !.tstate[p] = IF r.end = "" THEN "alive" ELSE "dead"],
                    caller, [pump EXCEPT ![p] = r.P], r.q,
                    [GhostPump(ghost, Mem, pump[p], r) EXCEPT
                       !.exited = IF r.end = "exit" THEN @ \cup {p}
                                  ELSE IF r.end # "" THEN @ \ {p} ELSE @])

\* pending_events() (line 65) or next_event() (line 67) raises in pump thread
\* p: the connection to the display is lost.  Nothing in run catches it.
ReadFails(p) ==
    /\ tstate[p] = "alive"
    /\ pump[p].pc \in {"p65", "p67"}
    /\ Commit([Mem EXCEPT !.tstate[p] = "dead"], caller,
              [pump EXCEPT ![p] = InitPump], queue,
              [ghost EXCEPT !.crashed = TRUE, !.lost = TRUE, !.exited = @ \ {p}])

\* No pump thread is inside __dispatch
Quiet == \A p \in PumpIds : tstate[p] = "alive" => pump[p].pc \in {"p64", "p65", "p69"}

\* h is listed for w under some kind
IsListed(M, w, h) == \E k \in Kinds : Contains(Listed(M, w, k), h)

\* The lists a register call would append to have room
HasRoom(M, w, h) ==
    \A i \in 1..Len(HandlerTypes(h)) : Len(Listed(M, w, HandlerTypes(h)[i])) < MaxLen

CallGhost(G, M, op, w, h, L) ==
    [G EXCEPT
       !.unregistered = @ \/ op = "unregister",
       !.pre = IF op = "unregister" /\ h # NoHandler /\ G.last.op = "register"
                  /\ G.last.w = w /\ G.last.h = h
               THEN [valid |-> TRUE, before |-> G.last.before, had |-> G.last.had]
               ELSE NoPre,
       !.last = [op |-> op, w |-> w, h |-> h, before |-> GetMasks(M, w),
                 had |-> IsListed(M, w, h), ret |-> L.ret, exc |-> L.exc]]

\* A client thread calls register or unregister and the call runs to its end
\* before any other thread takes a step.  rec: the call is entered in
\* ghost.last and ghost.pre; otherwise it is counted against MaxCalls.
Call(c, op, w, h, rec) ==
    /\ caller[c].pc = "idle"
    /\ IF rec THEN TRUE ELSE ghost.calls < MaxCalls
    /\ op = "register" => HasRoom(Mem, w, h)
    /\ \E r \in {RunCall(Mem, BeginCall(op, w, h))} :
           Commit(r.M, [caller EXCEPT ![c] = IF rec THEN r.L ELSE IdleFrame],
                  pump, queue,
                  IF rec THEN CallGhost(ghost, Mem, op, w, h, r.L)
                  ELSE [ghost EXCEPT !.calls = @ + 1,
                                     !.unregistered = @ \/ op = "unregister"])

\* A client thread calls register(w, h) and, as soon as it has returned,
\* unregister(w, h); no other thread takes a step before both have returned.
\* ghost.last describes the pair as op "round", with the outcome of unregister.
RoundTrip(c, w, h) ==
    /\ caller[c].pc = "idle"
    /\ \E r1 \in {RunCall(Mem, BeginCall("register", w, h))} :
         \E r2 \in {RunCall(r1.M, BeginCall("unregister", w, h))} :
            Commit(r2.M, [caller EXCEPT ![c] = r2.L], pump, queue,
                   [CallGhost(ghost, Mem, "round", w, h, r2.L) EXCEPT
                       !.unregistered = TRUE])

\* A client thread enters register or unregister
Begin(c, op, w, h) ==
    /\ caller[c].pc = "idle"
    /\ ghost.calls < MaxCalls
    /\ op = "register" => HasRoom(Mem, w, h)
    /\ Commit(Mem, [caller EXCEPT ![c] = BeginCall(op, w, h)], pump, queue,
              [ghost EXCEPT !.calls = @ + 1, !.unregistered = @ \/ op = "unregister"])

\* One statement of the call client thread c is in
Step(c) ==
    /\ CanStep(Mem, caller[c])
    /\ \E r \in {CallerStep(Mem, caller[c])} :
           Commit(r.M, [caller EXCEPT ![c] = r.L], pump, queue, ghost)

\* The window facade's grab_key(mask, code, numlock, capslock) on window w:
\* the key is grabbed on w.  by: the handler whose grab_keys made the grab,
\* kept for the properties only.
GrabKey(X, w, by, key, numlock, capslock) ==
    X \cup {[w |-> w, by |-> by, mask |-> key[1], code |-> key[2]]}

\* The window facade's ungrab_key(mask, code, numlock, capslock) on window
\* w: the key is no longer grabbed on w, whoever grabbed it
UngrabKey(X, w, key, numlock, capslock) ==
    {g \in X : ~(g.w = w /\ g.mask = key[1] /\ g.code = key[2])}

\* The for loops of grab_keys and ungrab_keys over self.keys
RECURSIVE GrabAll(_, _, _, _)
GrabAll(X, w, h, ks) ==
    IF ks = {} THEN X
    ELSE LET key == CHOOSE k \in ks : TRUE
         IN  GrabAll(GrabKey(X, w, h, key, hkeys[h].numlock, hkeys[h].capslock),
                     w, h, ks \ {key})

RECURSIVE UngrabAll(_, _, _, _)
UngrabAll(X, w, h, ks) ==
    IF ks = {} THEN X
    ELSE LET key == CHOOSE k \in ks : TRUE
         IN  UngrabAll(UngrabKey(X, w, key, hkeys[h].numlock, hkeys[h].capslock),
                       w, h, ks \ {key})

\* KeyHandler.grab_keys(window): every key of self.keys is grabbed on the
\* window, then window.register(self), which is the dispatcher's register.
\* It is called for a handler that is not listening on the window.
GrabKeys(c, h, w) ==
    /\ caller[c].pc = "idle"
    /\ ~IsListed(Mem, w, h)
    /\ HasRoom(Mem, w, h)
    /\ \E r \in {RunCall(Mem, BeginCall("register", w, h))} :
           CommitKeys(r.M, [caller EXCEPT ![c] = r.L], pump, queue,
                      CallGhost(ghost, Mem, "grab_keys", w, h, r.L),
                      hkeys, GrabAll(grabs, w, h, hkeys[h].keys))

\* KeyHandler.ungrab_keys(window): every key of self.keys, as it is now, is
\* ungrabbed on the window, then window.unregister(self).  It is called
\* after grab_keys(window).
UngrabKeys(c, h, w) ==
    /\ caller[c].pc = "idle"
    /\ IsListed(Mem, w, h)
    /\ \E r \in {RunCall(Mem, BeginCall("unregister", w, h))} :
           CommitKeys(r.M, [caller EXCEPT ![c] = r.L], pump, queue,
                      [CallGhost(ghost, Mem, "ungrab_keys", w, h, r.L) EXCEPT
                          !.unregistered = TRUE],
                      hkeys, UngrabAll(grabs, w, h, hkeys[h].keys))

\* KeyHandler.set_keys(keys, numlock, capslock): the handler's keys and lock
\* states are replaced; no window is told
SetKeys(h, ks, numlock, capslock) ==
    /\ hkeys[h] # [keys |-> ks, numlock |-> numlock, capslock |-> capslock]
    /\ CommitKeys(Mem, caller, pump, queue,
                  [ghost EXCEPT !.last = [NoCall EXCEPT !.op = "set_keys",
                                                        !.h = h]],
                  [hkeys EXCEPT ![h] = [keys |-> ks, numlock |-> numlock,
                                        capslock |-> capslock]],
                  grabs)

----------------------------------------------------------------------------
(* Specifications *)

Init ==
    /\ handlers = EmptyMap
    /\ dicts = <<>>
    /\ lists = <<>>
    /\ thread = NoThread
    /\ tstate = [p \in PumpIds |-> "unborn"]
    /\ pump = [p \in PumpIds |-> InitPump]
    /\ caller = [c \in Callers |-> IdleFrame]
    /\ queue = <<>>
    /\ ghost = InitGhost
    /\ hkeys = [h \in KeyHandlers |-> [keys |-> Keys(h), numlock |-> 0,
                                       capslock |-> 0]]
    /\ grabs = {}

\* The raw events that arrive: a key press on window 2, a key release on the
\* root window or on window 2, the destruction of window 2 reported to the
\* root window
KeyPress2 == [id |-> 0, win |-> 2, evt |-> NoWin, type |-> "KeyPress"]
KeyRelease1 == [id |-> 0, win |-> 1, evt |-> NoWin, type |-> "KeyRelease"]
KeyRelease2 == [id |-> 0, win |-> 2, evt |-> NoWin, type |-> "KeyRelease"]
Destroy2 == [id |-> 0, win |-> 2, evt |-> 1, type |-> "DestroyNotify"]
RawEvents == {KeyPress2, KeyRelease1, Destroy2}

\* The registry under calls made one at a time, each running to completion
\* before the next one and before the pump thread is scheduled
CallHandlers == {"key1", "key2", "destroy", "bare"}

NextCalls ==
    \/ \E w \in WinIds, h \in CallHandlers : Call(1, "register", w, h, TRUE)
    \/ \E w \in WinIds \cup {NoWin}, h \in CallHandlers \cup {NoHandler} :
          Call(1, "unregister", w, h, TRUE)

SpecCalls == Init /\ [][NextCalls]_vars

\* The pump dispatching raw events while calls are made one at a time
PumpHandlers == {"key1", "key2"}

NextPump ==
    \/ \E w \in WinIds, h \in PumpHandlers : Call(1, "register", w, h, FALSE)
    \/ \E w \in WinIds, h \in PumpHandlers \cup {NoHandler} :
          Call(1, "unregister", w, h, FALSE)
    \/ \E ev \in RawEvents : Arrive(ev, MaxEvents)
    \/ \E p \in PumpIds : PumpAct(p)

SpecPump == Init /\ [][NextPump]_vars

\* The pump dispatching raw events between calls: a call is made only while
\* no pump thread is inside __dispatch, and a read of the display may fail.
\* Mapping is an event that has neither a window nor an event attribute.
Mapping == [id |-> 0, win |-> NoWin, evt |-> NoWin, type |-> "MappingNotify"]
DispatchHandlers == {"key1", "destroy"}
DispatchEvents == {KeyPress2, Destroy2, Mapping}

NextDispatch ==
    \/ \E w \in WinIds, h \in DispatchHandlers :
          Quiet /\ Call(1, "register", w, h, FALSE)
    \/ \E w \in WinIds, h \in DispatchHandlers \cup {NoHandler} :
          Quiet /\ Call(1, "unregister", w, h, FALSE)
    \/ \E ev \in DispatchEvents : Arrive(ev, MaxRaceEvents)
    \/ \E p \in PumpIds : PumpAct(p)
    \/ \E p \in PumpIds : ReadFails(p)

SpecDispatch == Init /\ [][NextDispatch]_vars

\* CreateNotifyHandlers on the root window and CreateNotify events for a new
\* window 2, with override set and not set
CreateOverride == [id |-> 0, win |-> 2, evt |-> NoWin, type |-> "CreateNotify",
                   override |-> TRUE]
CreatePlain == [id |-> 0, win |-> 2, evt |-> NoWin, type |-> "CreateNotify",
                override |-> FALSE]
CreateHandlers == {"create", "create0"}

NextCreate ==
    \/ \E h \in CreateHandlers : Call(1, "register", Root, h, FALSE)
    \/ \E h \in CreateHandlers \cup {NoHandler} : Call(1, "unregister", Root, h, FALSE)
    \/ \E ev \in {CreateOverride, CreatePlain} : Arrive(ev, MaxEvents)
    \/ \E p \in PumpIds : PumpAct(p)

SpecCreate == Init /\ [][NextCreate]_vars

\* KeyHandlers registered on window 2, then raw key events for it, with their
\* state (modifier and button bits) and detail (keycode)
KeyStates == {0, 1, 4, 5, 8, 16, 17, 64, 77, 255, 256}
KeyCodes == {38, 39}
Key(t, s, d) == [id |-> 0, win |-> 2, evt |-> NoWin, type |-> t, state |-> s, detail |-> d]
KeyEvents ==
    {Key("KeyPress", s, 38) : s \in KeyStates}
    \cup {Key("KeyPress", 1, 39), Key("KeyRelease", 17, 38), Key("KeyRelease", 0, 39)}

NextKeys ==
    \/ \E h \in {"key1", "key2"} : ghost.arrived = 0 /\ Call(1, "register", 2, h, FALSE)
    \/ \E h \in {"key1", "key2"} : Call(1, "unregister", 2, h, FALSE)
    \/ \E ev \in KeyEvents : Arrive(ev, MaxRaceEvents)
    \/ \E p \in PumpIds : PumpAct(p)

SpecKeys == Init /\ [][NextKeys]_vars

\* ConfigureNotifyHandlers of the two variants of the events module on window
\* 2, and the geometry and property changes of window 2
Configure2 == [id |-> 0, win |-> 2, evt |-> 2, type |-> "ConfigureNotify"]
Property2 == [id |-> 0, win |-> 2, evt |-> NoWin, type |-> "PropertyNotify"]
ConfigureHandlers == {"configure", "tconfigure"}

NextConfigure ==
    \/ \E h \in ConfigureHandlers : Call(1, "register", 2, h, FALSE)
    \/ \E h \in ConfigureHandlers \cup {NoHandler} : Call(1, "unregister", 2, h, FALSE)
    \/ \E ev \in {Configure2, Property2} : Arrive(ev, MaxEvents)
    \/ \E p \in PumpIds : PumpAct(p)

SpecConfigure == Init /\ [][NextConfigure]_vars

\* Key presses arriving on window 2 while the pump drains the queue
NextDrain ==
    \/ Call(1, "register", 2, "key1", FALSE)
    \/ Call(1, "unregister", 2, "key1", FALSE)
    \/ ArriveMarked(KeyPress2, MaxEvents, ~Quiet)
    \/ \E p \in PumpIds : PumpAct(p)

SpecDrain == Init /\ [][NextDrain]_vars

\* Calls made one at a time, among them register(w, h) followed at once by
\* unregister(w, h), two KeyHandlers on either window and a
\* DestroyNotifyHandler on the root window
RoundArgs == (WinIds \X {"key1", "key2"}) \cup {<<Root, "destroy">>}

NextRound ==
    \/ \E a \in RoundArgs : Call(1, "register", a[1], a[2], TRUE)
    \/ \E a \in RoundArgs : Call(1, "unregister", a[1], a[2], TRUE)
    \/ \E a \in RoundArgs : RoundTrip(1, a[1], a[2])

SpecRound == Init /\ [][NextRound]_vars

\* A KeyHandler that grabs and ungrabs its keys on either window and has its
\* keys replaced at any time, and a second one, with a key in common, that
\* grabs and ungrabs on window 2
GrabArgs == ({"key1"} \X WinIds) \cup {<<"key2", 2>>}
KeyChoices == {Keys("key1"), Keys("key2"), {<<ControlMask, 40>>}}
LockStates == {0, 1}

NextGrab ==
    \/ \E a \in GrabArgs : GrabKeys(1, a[1], a[2])
    \/ \E a \in GrabArgs : UngrabKeys(1, a[1], a[2])
    \/ \E ks \in KeyChoices, n \in LockStates : SetKeys("key1", ks, n, 0)

SpecGrab == Init /\ [][NextGrab]_vars

\* Client threads running register and unregister statement by statement,
\* interleaved with each other and with the pump
ThreadHandlers == {"key1"}
ThreadWins == {2}
ThreadEvents == {KeyPress2, KeyRelease2}

NextThreads ==
    \/ \E c \in Callers, w \in ThreadWins, h \in ThreadHandlers : Begin(c, "register", w, h)
    \/ \E c \in Callers, w \in ThreadWins, h \in ThreadHandlers \cup {NoHandler} :
          Begin(c, "unregister", w, h)
    \/ \E c \in Callers : Begin(c, "unregister", NoWin, NoHandler)
    \/ \E c \in Callers : Step(c)
    \/ \E ev \in ThreadEvents : Arrive(ev, MaxRaceEvents)
    \/ \E p \in PumpIds : PumpAct(p)

SpecThreads == Init /\ [][NextThreads]_vars

\* Fair scheduling: a thread that can take a step eventually takes one.
\* Nothing obliges a client to make a call or an event to arrive.  The clients
\* register one handler on one window and unregister everything.
NextFair ==
    \/ \E c \in Callers : Begin(c, "register", 2, "key1")
    \/ \E c \in Callers : Begin(c, "unregister", NoWin, NoHandler)
    \/ \E c \in Callers : Step(c)
    \/ Arrive(KeyPress2, MaxRaceEvents)
    \/ \E p \in PumpIds : PumpAct(p)

SpecFair ==
    /\ Init /\ [][NextFair]_vars
    /\ \A c \in Callers : WF_vars(Step(c))
    /\ \A p \in PumpIds : WF_vars(PumpAct(p))

----------------------------------------------------------------------------
(* Properties *)

AllIdle == \A c \in Callers : caller[c].pc = "idle"
AlivePumps == {p \in PumpIds : tstate[p] = "alive"}
RegistryEmpty == DOMAIN handlers = {}
IsPrefix(s, t) == Len(s) <= Len(t) /\ \A i \in 1..Len(s) : s[i] = t[i]
DoneEvents == {i \in 1..Len(ghost.evs) : ghost.evs[i].status = "done"}

\* C1: no queued event is skipped or lost: once the dispatch of a raw event is
\* over, every handler that stayed registered for its window and kind from the
\* moment it was queued has been passed the event.
C1_NoQueuedEventLost ==
    \A i \in DoneEvents : ghost.evs[i].since \subseteq Range(ghost.evs[i].log)

\* C2: after completed register and unregister calls the registry holds no
\* window mapped to an empty kind map and no kind mapped to an empty list.
C2_NoEmptyCollections ==
    AllIdle =>
      \A w \in DOMAIN handlers :
         /\ DOMAIN dicts[handlers[w]] # {}
         /\ \A k \in DOMAIN dicts[handlers[w]] : lists[dicts[handlers[w]][k]] # <<>>

\* C3: at most one pump thread of the dispatcher is alive.
C3_AtMostOnePump == Cardinality(AlivePumps) <= 1

\* C4: once register has returned, a pump runs as long as the registry is
\* non-empty: with no call in progress, a non-empty registry and no pump ended
\* by an exception, some pump thread is alive.
C4_PumpRunsWhileRegistered ==
    (AllIdle /\ ~RegistryEmpty /\ ~ghost.crashed) => AlivePumps # {}

\* C5: when the registry has been emptied and no call is in progress, every
\* pump thread eventually terminates, unless a register call follows.
C5_PumpSelfTerminates ==
    (AllIdle /\ RegistryEmpty)
       ~> (AlivePumps = {} \/ \E c \in Callers : caller[c].pc = "r82")

\* C6: when handle_event of one handler raised for an event, the handlers
\* listed after it for the same window and kind are still invoked for it
\* (nothing having been unregistered, the list found at line 142 only grows).
C6_LaterHandlersStillInvoked ==
    \A i \in DoneEvents :
       (ghost.evs[i].failed /\ ~ghost.unregistered)
          => IsPrefix(ghost.evs[i].snap, ghost.evs[i].log)

\* C7: a failure of handle_event never terminates the pump: after it, while
\* the registry is non-empty, a pump thread is alive.
C7_FailureKeepsPumpAlive ==
    ((\E i \in 1..Len(ghost.evs) : ghost.evs[i].failed) /\ ~RegistryEmpty)
       => AlivePumps # {}

\* C8: with two or more handlers listed for the event's window and kind and
\* none unregistered, the event is delivered to all of them in list order.
C8_AllHandlersInOrder ==
    \A i \in DoneEvents :
       (Len(ghost.evs[i].snap) >= 2 /\ ~ghost.unregistered)
          => IsPrefix(ghost.evs[i].snap, ghost.evs[i].log)

\* h is listed in kind dict d under one of its kinds and not under another
HalfVisible(d, h) ==
    \E i, j \in 1..Len(HandlerTypes(h)) :
       LET ki == HandlerTypes(h)[i]
           kj == HandlerTypes(h)[j]
       IN  /\ ki \in DOMAIN dicts[d] /\ Contains(lists[dicts[d][ki]], h)
           /\ ~(kj \in DOMAIN dicts[d] /\ Contains(lists[dicts[d][kj]], h))

\* C9: no dispatch sees a handler that is being registered under one of its
\* kinds and not under another: when the pump looks the event's kind up
\* (line 139) in a window's table, no register call in progress on that table
\* has left its handler half listed.
C9_RegisterNotHalfVisible ==
    \A p \in AlivePumps, c \in Callers :
       (pump[p].pc = "p139" /\ caller[c].op = "register" /\ caller[c].pc # "idle"
          /\ caller[c].wh = pump[p].d)
       => ~HalfVisible(pump[p].d, caller[c].h)

\* C10: the mask returned by unregister(w, h) called right after register(w, h)
\* is the composite mask w had before that register.
C10_RoundTripMask ==
    ghost.pre.valid => ghost.last.ret = ghost.pre.before

\* the round trip was made for a handler already listed for the window
C10_Witness ==
    ghost.pre.valid /\ ghost.pre.had /\ ghost.last.ret # {}

\* The registry by content: window -> kind -> handlers in list order
RegistryView ==
    [w \in DOMAIN handlers |->
       [k \in DOMAIN dicts[handlers[w]] |-> lists[dicts[handlers[w]][k]]]]

\* The handlers found in window w's entry
Present(w) == {h \in HandlerIds : IsListed(Mem, w, h)}

\* The most recent call was op with a window, and it returned
LastReturned(op) ==
    ghost.last.op = op /\ ghost.last.w # NoWin /\ ghost.last.exc = ""

\* w has no entry at all, or has handlers, and h is not among them
NotRegistered(w, h) ==
    /\ w \notin DOMAIN handlers \/ Present(w) # {}
    /\ h \notin Present(w)

\* C11: unregister(w, h) for a handler h not registered on w (w having other
\* handlers, or no entry at all) raises nothing, leaves the registry as it was
\* and returns the composite mask w already had.
C11_UnregisterAbsentIsNoOp ==
    [][(/\ ghost'.last.op = "unregister"
        /\ ghost'.last.w # NoWin /\ ghost'.last.h # NoHandler
        /\ NotRegistered(ghost'.last.w, ghost'.last.h))
       => /\ ghost'.last.exc = ""
          /\ ghost'.last.ret = GetMasks(Mem, ghost'.last.w)
          /\ RegistryView' = RegistryView]_vars

\* unregister of a handler that was not listed returned, on a window that has
\* other handlers
C11_Witness ==
    /\ LastReturned("unregister")
    /\ ghost.last.h # NoHandler /\ ~ghost.last.had
    /\ ghost.last.before # {} /\ ghost.last.ret = ghost.last.before

\* C12: the mask returned by register(w, h) and by unregister(w, ...) is the
\* union of the masks of the handlers present in w's entry when the call
\* returns, and is empty when w has no handlers left.
C12_MaskIsUnionOfPresent ==
    (LastReturned("register") \/ LastReturned("unregister"))
       => ghost.last.ret = UNION {HandlerMasks(h) : h \in Present(ghost.last.w)}

\* register returned a mask made of the masks of two different handlers
C12_Witness ==
    /\ LastReturned("register")
    /\ Cardinality(Present(ghost.last.w)) = 2
    /\ \A h \in Present(ghost.last.w) : ghost.last.ret # HandlerMasks(h)

\* C13: unregister without a window, whatever the handler argument, empties
\* the registry and returns an empty mask.
C13_UnregisterAllClears ==
    (ghost.last.op = "unregister" /\ ghost.last.w = NoWin)
       => (RegistryEmpty /\ ghost.last.ret = {} /\ ghost.last.exc = "")

\* unregister(None, h) with a handler was called on a non-empty registry
C13_Witness ==
    /\ ghost.last.op = "unregister" /\ ghost.last.w = NoWin
    /\ ghost.last.h # NoHandler
    /\ RegistryEmpty /\ thread # NoThread

\* C14: unregister(w) with no handler removes every handler of w under every
\* kind and leaves the entries of all other windows unchanged.
C14_UnregisterWindowFrame ==
    [][(ghost'.last.op = "unregister" /\ ghost'.last.w # NoWin
          /\ ghost'.last.h = NoHandler)
       => /\ ghost'.last.exc = ""
          /\ ghost'.last.w \notin DOMAIN handlers'
          /\ \A o \in WinIds \ {ghost'.last.w} :
                /\ o \in DOMAIN handlers' <=> o \in DOMAIN handlers
                /\ o \in DOMAIN handlers => RegistryView'[o] = RegistryView[o]]_vars

\* unregister(w) removed the handlers of w while another window keeps its own
C14_Witness ==
    /\ LastReturned("unregister") /\ ghost.last.h = NoHandler
    /\ ghost.last.before # {}
    /\ ghost.last.w \notin DOMAIN handlers
    /\ \E o \in DOMAIN handlers : Present(o) # {}

\* C15: after unregister(w, h) returns, h is in none of w's per-kind lists,
\* however many times h had been registered on w.
C15_UnregisterRemovesHandler ==
    (LastReturned("unregister") /\ ghost.last.h # NoHandler)
       => ghost.last.h \notin Present(ghost.last.w)

\* The first window of event.window, event.event and the root window, in this
\* order, that has an entry in the registry; fields the event lacks are
\* skipped.  NoWin when none has.
FirstRegistered(ev) ==
    LET c == <<ev.win, ev.evt, Root>>
        ix == {i \in 1..3 : c[i] # NoWin /\ c[i] \in DOMAIN handlers}
    IN  IF ix = {} THEN NoWin ELSE c[CHOOSE i \in ix : \A j \in ix : i <= j]

InTable == {"p139", "p142", "p142f", "p143"}

\* C16: the handler table used for a dispatched raw event is that of the first
\* of event.window, event.event and the root window that has handlers
\* registered.
C16_TableOfFirstRegistered ==
    \A p \in AlivePumps :
       pump[p].pc \in InTable
          => /\ FirstRegistered(pump[p].ev) # NoWin
             /\ pump[p].d = handlers[FirstRegistered(pump[p].ev)]

\* an event reported on an unregistered window is looked up in the table of
\* the window it is reported for, and an event with neither field in the
\* root window's table while another window has handlers
C16_Witness ==
    \E p \in AlivePumps :
       /\ pump[p].pc = "p139"
       /\ \/ pump[p].ev.win # NoWin /\ pump[p].ev.win \notin DOMAIN handlers
             /\ pump[p].ev.evt # NoWin /\ pump[p].d = handlers[pump[p].ev.evt]
          \/ pump[p].ev.win = NoWin /\ pump[p].ev.evt = NoWin
             /\ DOMAIN handlers = WinIds /\ pump[p].d = handlers[Root]

\* C17: a dispatch that finds no handlers for the event's window drops the
\* event and never ends the pump, whatever unregister does meanwhile: no pump
\* thread ends at one of the registry lookups of __dispatch.
C17_LookupNeverEndsPump ==
    [][\A p \in PumpIds :
          (tstate[p] = "alive" /\ tstate'[p] # "alive")
             => pump[p].pc \notin {"p128", "p132", "p135", "p142"}]_vars

\* The pump is at line 139 and the table found has no list for the event's kind
KindMissing(p) ==
    /\ tstate[p] = "alive" /\ pump[p].pc = "p139"
    /\ pump[p].ev.type \notin DOMAIN dicts[pump[p].d]

\* C18: when the resolved window has handlers but none for the event's kind,
\* the event is dropped: no handler of any window is invoked for it, nothing
\* is raised, the registry is unchanged and the pump continues.
C18_MissingKindDropsEvent ==
    [][\A p \in PumpIds :
          (KindMissing(p) /\ (tstate'[p] # "alive" \/ pump'[p].pc # "p139"))
             => /\ tstate'[p] = "alive" /\ pump'[p].pc = "p65"
                /\ ghost'.evs[pump[p].ev.id].status = "done"
                /\ ghost'.evs[pump[p].ev.id].log = <<>>
                /\ ~ghost'.evs[pump[p].ev.id].failed
                /\ RegistryView' = RegistryView]_vars

\* a DestroyNotify reported on window 2, which has key handlers only, was
\* dropped while the root window has a handler for DestroyNotify
C18_Witness ==
    \E i \in DoneEvents :
       /\ ghost.evs[i].ev.type = "DestroyNotify" /\ ghost.evs[i].log = <<>>
       /\ ghost.evs[i].ev.win \in DOMAIN handlers
       /\ Listed(Mem, ghost.evs[i].ev.win, "KeyPress") # <<>>
       /\ Listed(Mem, ghost.evs[i].ev.win, "DestroyNotify") = <<>>
       /\ Listed(Mem, Root, "DestroyNotify") # <<>>
       /\ \E p \in AlivePumps : pump[p].pc = "p65"

\* What the owning process can see of the dispatcher: the results of its
\* calls, the registry and whether the pump thread is alive
Visible ==
    [active |-> ThreadIsAlive(Mem), registry |-> RegistryView,
     errors |-> {caller[c].exc : c \in Callers} \ {""}]

\* What it sees after the pump stopped on an empty registry
NormalStop == [active |-> FALSE, registry |-> EmptyMap, errors |-> {}]

\* C19: when a read of the display's queue fails the pump stops, and what the
\* owning process can observe differs from the normal stop on an empty
\* registry.
C19_ReadFailureSurfaced ==
    [][(~ghost.lost /\ ghost'.lost)
          => (~ThreadIsAlive(Mem)' /\ Visible' # NormalStop)]_vars

\* The handlers whose handle_event was called with the event and returned
Returned(e) == IF e.failed THEN SubSeq(e.log, 1, Len(e.log) - 1) ELSE e.log

\* C20: a CreateNotify event with override set never reaches a create
\* callback, and one with override not set reaches the create callback of
\* every CreateNotifyHandler it is handed to that was given one.
C20_OverrideNeverCreates ==
    \A i \in 1..Len(ghost.evs) :
       ghost.evs[i].ev.type = "CreateNotify"
          => ghost.evs[i].created =
                IF ghost.evs[i].ev.override THEN <<>>
                ELSE SelectSeq(Returned(ghost.evs[i]), HasCallback)

\* an event with override set was handed to a handler that has a callback,
\* and one with override not set reached the callback
C20_Witness ==
    \E i, j \in DoneEvents :
       /\ ghost.evs[i].ev.type = "CreateNotify" /\ ghost.evs[i].ev.override
       /\ Contains(Returned(ghost.evs[i]), "create") /\ ghost.evs[i].created = <<>>
       /\ ghost.evs[j].ev.type = "CreateNotify" /\ ~ghost.evs[j].ev.override
       /\ Contains(ghost.evs[j].created, "create")

\* The tracked modifier bits of a raw state, bit by bit
TrackedBits(state) ==
    LET on == {i \in 1..Len(KeyModifiers) : (state \div KeyModifiers[i]) % 2 = 1}
        RECURSIVE Sum(_)
        Sum(S) == IF S = {} THEN 0
                  ELSE LET i == CHOOSE x \in S : TRUE IN KeyModifiers[i] + Sum(S \ {i})
    IN  Sum(on)

\* What the claim expects of KeyEvent.modifiers
Normalized(state) == IF TrackedBits(state) # 0 THEN TrackedBits(state) ELSE AnyModifier

\* C21: for every raw key state, KeyEvent.modifiers is the state restricted to
\* the Shift, Control, Mod1 and Mod4 bits when one of them is set and the
\* AnyModifier sentinel, never zero, when none is; keycode is the raw detail.
C21_ModifiersNormalized ==
    \A i \in 1..Len(ghost.evs) : \A j \in 1..Len(ghost.evs[i].keyed) :
       /\ ghost.evs[i].keyed[j].modifiers = Normalized(ghost.evs[i].ev.state)
       /\ ghost.evs[i].keyed[j].modifiers # 0
       /\ ghost.evs[i].keyed[j].keycode = ghost.evs[i].ev.detail

\* a KeyEvent was made of a state with no tracked bit set, and one of a state
\* with tracked and untracked bits set
C21_Witness ==
    \E i \in DoneEvents :
       /\ ghost.evs[i].keyed # <<>>
       /\ \/ ghost.evs[i].ev.state = 16 /\ ghost.evs[i].keyed[1].modifiers = AnyModifier
          \/ /\ ghost.evs[i].ev.state = 255
             /\ ghost.evs[i].keyed[1].modifiers = ShiftMask + ControlMask + Mod1Mask + Mod4Mask

\* For the handlers of sequence hs, the KeyEvent each is expected to make of
\* raw key event ev and whether it is expected to call back
RECURSIVE ExpectedKeyed(_, _)
ExpectedKeyed(hs, ev) ==
    IF hs = <<>> THEN <<>>
    ELSE <<[h |-> Head(hs), modifiers |-> Normalized(ev.state), keycode |-> ev.detail,
            called |-> /\ HasKeyCallback(Head(hs), ev.type)
                       /\ <<Normalized(ev.state), ev.detail>> \in Keys(Head(hs))]>>
         \o ExpectedKeyed(Tail(hs), ev)

\* C22: a KeyHandler whose handle_event is called with a raw key event calls
\* its callback for that event type, with a KeyEvent carrying the keycode and
\* the normalized modifiers, when the (normalized modifiers, keycode) pair is
\* in its keys, and a key event whose pair is not in keys does not reach the
\* callback.
C22_KeysFilterCallback ==
    \A i \in 1..Len(ghost.evs) :
       ghost.evs[i].keyed = ExpectedKeyed(Returned(ghost.evs[i]), ghost.evs[i].ev)

\* a KeyPress with the Shift bit and an untracked bit set and keycode 38 was
\* passed to key1, which called back, or a KeyPress of keycode 39 with Shift
\* set was passed to key1, which did not
C22_Witness ==
    \E i \in DoneEvents :
       /\ ghost.evs[i].ev.type = "KeyPress"
       /\ Len(ghost.evs[i].keyed) = 1
       /\ ghost.evs[i].keyed[1].h = "key1"
       /\ \/ /\ ghost.evs[i].ev.state = 17 /\ ghost.evs[i].ev.detail = 38
             /\ ghost.evs[i].keyed[1].called
          \/ /\ ghost.evs[i].ev.state = 1 /\ ghost.evs[i].ev.detail = 39
             /\ ~ghost.evs[i].keyed[1].called

\* C23: a ConfigureNotifyHandler of either variant of the events module is
\* listed in the registry under the ConfigureNotify kind only, and its
\* handle_event is never called with a PropertyNotify event.
C23_ConfigureKindOnly ==
    /\ \A w \in WinIds, k \in Kinds, h \in {"configure", "configurec", "tconfigure"} :
          Contains(Listed(Mem, w, k), h) => k = "ConfigureNotify"
    /\ \A i \in 1..Len(ghost.evs) :
          ghost.evs[i].ev.type = "PropertyNotify" =>
             Range(ghost.evs[i].log) \cap {"configure", "configurec", "tconfigure"} = {}

\* The handlers view V lists for (w, k)
ViewList(V, w, k) == IF w \in DOMAIN V /\ k \in DOMAIN V[w] THEN V[w][k] ELSE <<>>

C25_ChildrenMask ==
    (/\ LastReturned("register")
     /\ ghost.last.h \in {"destroy", "destroyc", "configure", "configurec"})
    => (IF Children(ghost.last.h) THEN "StructureNotifyMask"
        ELSE "SubstructureNotifyMask") \in ghost.last.ret

\* The ids of the raw events in the display's queue, in queue order
QueuedIds == [i \in 1..Len(queue) |-> queue[i].id]

\* The raw events not yet taken from the queue, in order of arrival
NotTaken ==
    LET RECURSIVE from(_)
        from(i) == IF i > Len(ghost.evs) THEN <<>>
                   ELSE IF ghost.evs[i].status = "queued" THEN <<i>> \o from(i + 1)
                   ELSE from(i + 1)
    IN  from(1)

\* C26: the pump takes raw events from the queue one at a time and in queue
\* order, the dispatch of each taken event is over before the next is taken,
\* no event is taken twice, and the pump goes from the drain loop to its sleep
\* only from the test that found no event pending.
C26_DrainInOrder ==
    [][/\ \A i \in 1..Len(ghost.evs) :
             (ghost.evs[i].status = "queued" /\ ghost.evs'[i].status # "queued")
             => /\ ghost.evs'[i].status = "taken"
                /\ i = Head(NotTaken)
                /\ \A j \in 1..Len(ghost.evs) : j # i => ghost.evs[j].status # "taken"
       /\ \A i \in 1..Len(ghost.evs) :
             /\ ghost.evs[i].status = "taken" => ghost.evs'[i].status \in {"taken", "done"}
             /\ ghost.evs[i].status = "done" => ghost.evs'[i].status = "done"
       /\ QueuedIds' = NotTaken'
       /\ \A p \in PumpIds :
             (/\ tstate[p] = "alive" /\ tstate'[p] = "alive"
              /\ pump[p].pc # "p64" /\ pump'[p].pc = "p64")
             => pump[p].pc = "p65" /\ queue = <<>>]_vars

\* two raw events have been dispatched, each to a handler, and the pump has
\* gone to sleep
C26_Witness ==
    /\ Len(ghost.evs) = 2
    /\ \A i \in 1..2 : ghost.evs[i].status = "done" /\ ghost.evs[i].log # <<>>
    /\ \E p \in PumpIds : tstate[p] = "alive" /\ pump[p].pc = "p64"
    /\ ~ghost.crashed

\* C27: a drain handles no more events than were pending when it began: a raw
\* event that arrives during a drain is left in the queue until the pump has
\* made its next registry test.
C27_DrainBounded ==
    \A i \in 1..Len(ghost.evs) : ghost.evs[i].late => ghost.evs[i].status = "queued"

\* C28: a pump thread goes to the end of run only from the registry test of
\* line 64 when it finds the registry empty, and makes that test only after
\* the test of line 65 found the queue empty; a call of register or unregister
\* ends no pump thread and starts none while one is alive; and a register that
\* refills an emptied registry starts a second pump thread only if the one
\* before it has returned from run at line 69.
C28_ExitOnlyAtCheck ==
    [][/\ \A p \in PumpIds :
             (tstate[p] = "alive" /\ tstate'[p] = "alive" /\ pump[p].pc # pump'[p].pc)
             => /\ pump'[p].pc = "p69" => (pump[p].pc = "p64" /\ RegistryEmpty)
                /\ pump'[p].pc = "p64" => queue = <<>>
       /\ (ghost'.calls # ghost.calls /\ AlivePumps # {})
             => (AlivePumps' = AlivePumps /\ thread' = thread)
       /\ (/\ ghost'.calls # ghost.calls
           /\ RegistryEmpty /\ ~RegistryEmpty'
           /\ thread # NoThread /\ thread' # thread)
             => thread \in ghost.exited]_vars

\* C29: every handler the registry lists under kind k for a window has k among
\* its types, and __dispatch calls handle_event only on a handler that has the
\* event's type among its types.
C29_ListedUnderOwnTypes ==
    /\ \A w \in WinIds, k \in Kinds :
          \A i \in 1..Len(Listed(Mem, w, k)) :
             k \in Range(HandlerTypes(Listed(Mem, w, k)[i]))
    /\ \A p \in PumpIds :
          (tstate[p] = "alive" /\ pump[p].pc = "p143")
          => pump[p].ev.type \in Range(HandlerTypes(pump[p].hd))

\* the pump is about to call handle_event of the DestroyNotifyHandler with a
\* DestroyNotify event while a KeyHandler is registered as well
C29_Witness ==
    /\ \E p \in PumpIds :
          /\ tstate[p] = "alive" /\ pump[p].pc = "p143"
          /\ pump[p].hd = "destroy" /\ pump[p].ev.type = "DestroyNotify"
    /\ \E w \in WinIds : IsListed(Mem, w, "key1")

\* C30: a handler registered twice on a window is listed twice, and once its
\* list has been found with the two entries for a raw event, its handle_event
\* is called twice with that event.
C30_DuplicateInvokedTwice ==
    \A i \in DoneEvents : \A h \in HandlerIds :
       (ghost.evs[i].snap = <<h, h>> /\ ~ghost.unregistered)
       => ghost.evs[i].log = <<h, h>>

\* Sequence s without the entries equal to x, and how often x is in s
Without(s, x) == SelectSeq(s, LAMBDA y : y # x)
Count(s, x) == Cardinality({i \in 1..Len(s) : s[i] = x})

\* C31: unregister(w, h) leaves the entry of every window other than w as it
\* was and, under every kind of w, the handlers other than h present and in
\* the same relative order.
C31_UnregisterHandlerFrame ==
    [][(ghost'.last.op = "unregister" /\ ghost'.last.w # NoWin
          /\ ghost'.last.h # NoHandler)
       => /\ ghost'.last.exc = ""
          /\ \A o \in WinIds \ {ghost'.last.w} :
                /\ o \in DOMAIN handlers' <=> o \in DOMAIN handlers
                /\ o \in DOMAIN handlers => RegistryView'[o] = RegistryView[o]
          /\ \A k \in Kinds :
                Without(ViewList(RegistryView', ghost'.last.w, k), ghost'.last.h)
                   = Without(ViewList(RegistryView, ghost'.last.w, k), ghost'.last.h)]_vars

\* unregister(w, h) took h out of a list that holds another handler before
\* it, while the other window has handlers too
C31_Witness ==
    /\ LastReturned("unregister") /\ ghost.last.h # NoHandler /\ ghost.last.had
    /\ \E k \in Kinds :
          /\ k \in Range(HandlerTypes(ghost.last.h))
          /\ Without(Listed(Mem, ghost.last.w, k), ghost.last.h) # <<>>
    /\ \E o \in DOMAIN handlers : o # ghost.last.w

\* C32: when a handler is unregistered while a raw event is being delivered to
\* the handlers of its window and kind, every other handler that stays listed
\* there is passed the event, provided no handle_event raises.
C32_OthersStillReceive ==
    \A i \in DoneEvents :
       (ghost.evs[i].snap # <<>> /\ ~ghost.evs[i].failed /\ ghost.unregistered)
       => \A h \in ghost.evs[i].since : Count(ghost.evs[i].log, h) >= 1

\* Sequence s with its earliest entry equal to x moved to the end; s itself
\* when x is not in s
EarliestToEnd(s, x) ==
    LET at == {i \in 1..Len(s) : s[i] = x}
        first == CHOOSE i \in at : \A j \in at : i <= j
    IN  IF at = {} THEN s
        ELSE SubSeq(s, 1, first - 1) \o SubSeq(s, first + 1, Len(s)) \o <<x>>

GrabbedBy(h, w) == {g \in grabs : g.w = w /\ g.by = h}

\* C34: grab_keys(w) grabs every key of the handler on w and then registers
\* the handler on w; after the ungrab_keys(w) that follows it, no key the
\* handler grabbed is still grabbed on w and the handler is no longer
\* registered on w, also when the handler's keys were replaced in between.
C34_UngrabUndoesGrab ==
    /\ ghost.last.op = "grab_keys" =>
           /\ \A key \in hkeys[ghost.last.h].keys :
                  \E g \in GrabbedBy(ghost.last.h, ghost.last.w) :
                      g.mask = key[1] /\ g.code = key[2]
           /\ IsListed(Mem, ghost.last.w, ghost.last.h)
    /\ ghost.last.op = "ungrab_keys" =>
           /\ GrabbedBy(ghost.last.h, ghost.last.w) = {}
           /\ ~IsListed(Mem, ghost.last.w, ghost.last.h)

====
